---------------------------- MODULE Spec2Model ----------------------------
(***************************************************************************)
(* Payroll calculation of the WorkZen HRMS backend                         *)
(* (backend/utils/calculations.py) and the attendance store it reads.      *)
(*                                                                         *)
(* Units.  Money is an integer number of hundredths of a rupee ("paise"),  *)
(* so 10000.01 is 1000001.  Attended days are an integer number of half    *)
(* days, so 22.0 is 44 and 0.5 is 1: the code only ever adds 1.0 or 0.5,   *)
(* both exact in binary64.  The attendance ratio is an integer number of   *)
(* thousandths.                                                            *)
(*                                                                         *)
(* Rounding.  Python's round(x, n) returns the multiple of 10^-n nearest   *)
(* to the binary64 value x.  The values rounded here are quotients whose   *)
(* denominator is at most 50 * 23, so a value that is not exactly halfway  *)
(* between two multiples is farther from the halfway point than any        *)
(* binary64 error and is rounded as the exact quotient is.  A value that   *)
(* is exactly halfway lands on either side, as the binary64 error of the   *)
(* expression decides (0.015 -> 0.01, 0.135 -> 0.14).  The variable fp     *)
(* fixes that side for each rounding site of calculate_payroll; it is      *)
(* chosen freely at the start and never changes, because the same          *)
(* expression on the same inputs always rounds the same way.               *)
(***************************************************************************)
EXTENDS Integers, FiniteSets, Sequences, TLC

VARIABLES
    fp,          \* side taken by round() on an exact half, per rounding site
    employee,    \* the Employee row handed to calculate_payroll
    attendance,  \* the attendance table: a set of rows
    year,        \* the period asked for
    month,
    salary,      \* the argument of calculate_professional_tax
    result,      \* what the last call returned, [op |-> "none"] before it
    payroll,     \* the payroll table: a set of rows
    flight,      \* generate_payrun requests past their lookups, not yet committed
    payslips,    \* the payslips table: a set of rows
    leave_allocations,  \* the leave_allocations table: a set of rows
    leave_requests,     \* the leave_requests table: a set of rows
    users,       \* the users table: a set of rows
    employees    \* the employees table as register counts it: a set of rows

vars == <<fp, employee, attendance, year, month, salary, result, payroll, flight,
          payslips, leave_allocations, leave_requests, users, employees>>

None == [op |-> "none"]

(***************************************************************************)
(* Bounds of the model.                                                    *)
(***************************************************************************)
MinYear == 1896
MaxYear == 2104
MaxPresent == 23
MaxHalfDay == 1
MaxAbsent == 1
TaxWindow == 25
MaxValidateSteps == 6
MaxRequests == 2
MaxMonthlyPresent == 3
MaxLeaveRequests == 3
MaxUsers == 3
MaxEmployees == 2
MaxSalaryThousands == 60

(***************************************************************************)
(* datetime.date and calendar.monthrange, as the Python library computes   *)
(* them (proleptic Gregorian ordinal, Monday = 0).                         *)
(***************************************************************************)
isleap(y) == y % 4 = 0 /\ (y % 100 # 0 \/ y % 400 = 0)

mdays == <<31, 28, 31, 30, 31, 30, 31, 31, 30, 31, 30, 31>>

\* monthrange(year, month)[1]: the number of days of the month
monthrange(y, m) == mdays[m] + (IF m = 2 /\ isleap(y) THEN 1 ELSE 0)

days_before_year(y) ==
    (y - 1) * 365 + ((y - 1) \div 4) - ((y - 1) \div 100) + ((y - 1) \div 400)

RECURSIVE days_before_month(_, _)
days_before_month(y, m) ==
    IF m = 1 THEN 0 ELSE days_before_month(y, m - 1) + monthrange(y, m - 1)

\* date(y, m, d).toordinal(): 1 for 0001-01-01
toordinal(y, m, d) == days_before_year(y) + days_before_month(y, m) + d

\* date(y, m, d).weekday(): Monday = 0 ... Sunday = 6
weekday(y, m, d) == (toordinal(y, m, d) + 6) % 7

\* a date is <<year, month, day>>; date <= date is the lexicographic order
date(y, m, d) == <<y, m, d>>

DateLE(a, b) ==
    \/ a[1] < b[1]
    \/ a[1] = b[1] /\ a[2] < b[2]
    \/ a[1] = b[1] /\ a[2] = b[2] /\ a[3] <= b[3]

(***************************************************************************)
(* get_working_days(year, month)                                           *)
(***************************************************************************)
get_working_days_sat(y, m) ==
    Cardinality({day \in 1 .. monthrange(y, m) : weekday(y, m, day) <= 5})

get_working_days(y, m) ==
    Cardinality({day \in 1 .. monthrange(y, m) : weekday(y, m, day) < 5})


(***************************************************************************)
(* Working-day counter on its own: the period is drawn at the start and    *)
(* the one operation applies get_working_days to it.                       *)
(***************************************************************************)
Years == MinYear .. MaxYear

Months == 1 .. 12

NoEmployee == [id |-> 0, basic_salary |-> 0, allowances |-> 0]

NoFp == [site \in {"gross", "pf", "net", "ratio"} |-> "down"]

InitWorkingDays ==
    /\ year \in Years
    /\ month \in Months
    /\ fp = NoFp
    /\ employee = NoEmployee
    /\ attendance = {}
    /\ salary = 0
    /\ result = None
    /\ payroll = {}
    /\ flight = {}
    /\ payslips = {}
    /\ leave_allocations = {}
    /\ leave_requests = {}
    /\ users = {}
    /\ employees = {}

GetWorkingDays ==
    /\ result = None
    /\ result' = [op |-> "get_working_days", working_days |-> get_working_days(year, month)]
    /\ UNCHANGED <<fp, employee, attendance, year, month, salary, payroll, flight, payslips,
                   leave_allocations, leave_requests, users, employees>>

NextWorkingDays == GetWorkingDays

SpecWorkingDays == InitWorkingDays /\ [][NextWorkingDays]_vars

(***************************************************************************)
(* The Gregorian calendar stated independently of the library's ordinal    *)
(* arithmetic: month lengths by the rhyme, the day of the week by          *)
(* Sakamoto's congruence (0 = Sunday ... 6 = Saturday).                    *)
(***************************************************************************)
GregorianLeap(y) == IF y % 400 = 0 THEN TRUE ELSE IF y % 100 = 0 THEN FALSE ELSE y % 4 = 0

GregorianMonthLength(y, m) ==
    IF m \in {4, 6, 9, 11} THEN 30
    ELSE IF m = 2 THEN (IF GregorianLeap(y) THEN 29 ELSE 28)
    ELSE 31

SakamotoT == <<0, 3, 2, 5, 0, 3, 5, 1, 4, 6, 2, 4>>

GregorianDayOfWeek(y, m, d) ==
    LET yy == IF m < 3 THEN y - 1 ELSE y
    IN  (yy + (yy \div 4) - (yy \div 100) + (yy \div 400) + SakamotoT[m] + d) % 7

MondayToFriday(y, m) ==
    {d \in 1 .. GregorianMonthLength(y, m) : GregorianDayOfWeek(y, m, d) \in 1 .. 5}

\* C1: get_working_days(year, month) is the number of dates of that Gregorian
\* month (leap years included) that fall on Monday..Friday; it is 23 for
\* January 2025, 20 for February 2025, and always between 20 and 23.
C1_WorkingDaysCount ==
    result.op = "get_working_days" =>
        /\ result.working_days = Cardinality(MondayToFriday(year, month))
        /\ result.working_days \in 20 .. 23
        /\ (year = 2025 /\ month = 1 => result.working_days = 23)
        /\ (year = 2025 /\ month = 2 => result.working_days = 20)

\* C1 witness: the counter has answered for a leap-year February.
C1_Witness ==
    /\ result.op = "get_working_days"
    /\ year = 2024 /\ month = 2
    /\ result.working_days = 21


(***************************************************************************)
(* calculate_professional_tax(salary), salary and tax in paise             *)
(***************************************************************************)
calculate_professional_tax_strict(s) ==
    IF s < 1000000 THEN 0
    ELSE IF s < 3000000 THEN 15000
    ELSE 20000

calculate_professional_tax(s) ==
    IF s <= 1000000 THEN 0
    ELSE IF s <= 3000000 THEN 15000
    ELSE 20000

(***************************************************************************)
(* Professional-tax stepper on its own: the salary is drawn at the start   *)
(* from every thousand rupees up to MaxSalaryThousands and from every      *)
(* paisa within TaxWindow of the two slab limits.                          *)
(***************************************************************************)
Salaries ==
    {r * 100000 : r \in -2 .. MaxSalaryThousands}
        \cup {1000000 + d : d \in -TaxWindow .. TaxWindow}
        \cup {3000000 + d : d \in -TaxWindow .. TaxWindow}

InitTax ==
    /\ salary \in Salaries
    /\ year = 2025
    /\ month = 1
    /\ fp = NoFp
    /\ employee = NoEmployee
    /\ attendance = {}
    /\ result = None
    /\ payroll = {}
    /\ flight = {}
    /\ payslips = {}
    /\ leave_allocations = {}
    /\ leave_requests = {}
    /\ users = {}
    /\ employees = {}

CalculateProfessionalTax ==
    /\ result = None
    /\ result' = [op |-> "calculate_professional_tax",
                  professional_tax |-> calculate_professional_tax(salary)]
    /\ UNCHANGED <<fp, employee, attendance, year, month, salary, payroll, flight, payslips,
                   leave_allocations, leave_requests, users, employees>>

NextTax == CalculateProfessionalTax

SpecTax == InitTax /\ [][NextTax]_vars

\* C2: calculate_professional_tax returns 0.00 up to 10000 inclusive, 150.00
\* above 10000 up to 30000 inclusive and 200.00 above 30000; so 10000 -> 0,
\* 10000.01 -> 150, 30000 -> 150, 30000.01 -> 200, 45000 -> 200.
C2_TaxLadder ==
    result.op = "calculate_professional_tax" =>
        /\ (salary < 1000001 => result.professional_tax = 0)
        /\ (salary > 1000000 /\ salary < 3000001 => result.professional_tax = 15000)
        /\ (salary > 3000000 => result.professional_tax = 20000)
        /\ (salary = 1000000 => result.professional_tax = 0)
        /\ (salary = 1000001 => result.professional_tax = 15000)
        /\ (salary = 3000000 => result.professional_tax = 15000)
        /\ (salary = 3000001 => result.professional_tax = 20000)
        /\ (salary = 4500000 => result.professional_tax = 20000)

\* C2 witness: the stepper has answered for a salary exactly on the upper
\* slab limit, which stays in the 150.00 slab.
C2_Witness ==
    /\ result.op = "calculate_professional_tax"
    /\ salary = 3000000
    /\ result.professional_tax = 15000


(***************************************************************************)
(* round(): the integer nearest to num / den (den > 0); an exact half goes *)
(* to the side fp gives for the site.                                      *)
(***************************************************************************)
Sites == {"gross", "pf", "net", "ratio"}

round_floor(num, den, site) == num \div den

round(num, den, site) ==
    LET q == num \div den
        r == num % den
    IN  IF 2 * r < den THEN q
        ELSE IF 2 * r > den THEN q + 1
        ELSE IF fp[site] = "up" THEN q + 1 ELSE q

(***************************************************************************)
(* The attendance table.  A row is                                         *)
(*   [employee_id, date, status], status one of AttendanceStatus;          *)
(* the table holds at most one row per (employee_id, date).                *)
(***************************************************************************)
AttendanceStatus == {"Present", "Absent", "Half Day"}

\* the rows of the query of get_attended_days, with the end of the range open
month_records_open_end(employee_id, y, m, db) ==
    LET start_date == date(y, m, 1)
        end_date == date(y, m, monthrange(y, m))
    IN  {record \in db :
            /\ record.employee_id = employee_id
            /\ DateLE(start_date, record.date)
            /\ DateLE(record.date, end_date) /\ record.date # end_date}

\* db.query(Attendance).filter(employee_id ==, date >= start_date, date <= end_date)
month_records(employee_id, y, m, db) ==
    LET start_date == date(y, m, 1)
        end_date == date(y, m, monthrange(y, m))
    IN  {record \in db :
            /\ record.employee_id = employee_id
            /\ DateLE(start_date, record.date)
            /\ DateLE(record.date, end_date)}

\* the loop over attendance_records: += 1.0 for Present, += 0.5 for Half Day
RECURSIVE total_attended(_)
total_attended(records) ==
    IF records = {} THEN 0
    ELSE LET record == CHOOSE x \in records : TRUE
             rest == total_attended(records \ {record})
         IN  IF record.status = "Present" THEN rest + 2
             ELSE IF record.status = "Half Day" THEN rest + 1
             ELSE rest

\* with the rows dated on a Saturday or Sunday left out of the sum
get_attended_days_weekdays_only(employee_id, y, m, db) ==
    total_attended({record \in month_records(employee_id, y, m, db) :
                      weekday(record.date[1], record.date[2], record.date[3]) < 5})

\* get_attended_days(employee_id, year, month, db), in half days
get_attended_days(employee_id, y, m, db) ==
    total_attended(month_records(employee_id, y, m, db))

(***************************************************************************)
(* apply_attendance_adjustment(gross_salary, working_days, attended_days): *)
(* round(gross_salary * (attended_days / working_days), 2)                 *)
(***************************************************************************)
\* with the ratio rounded to 3 decimals before it is used
apply_attendance_adjustment_ratio3(gross_salary, working_days, attended_days) ==
    IF working_days = 0 THEN 0
    ELSE round(gross_salary * round(1000 * attended_days, 2 * working_days, "ratio"),
               1000, "gross")

\* with the amount cut to the paisa below instead of rounded
apply_attendance_adjustment_floor(gross_salary, working_days, attended_days) ==
    IF working_days = 0 THEN 0
    ELSE round_floor(gross_salary * attended_days, 2 * working_days, "gross")

apply_attendance_adjustment(gross_salary, working_days, attended_days) ==
    IF working_days = 0 THEN 0
    ELSE round(gross_salary * attended_days, 2 * working_days, "gross")

(***************************************************************************)
(* calculate_payroll(employee, year, month, db)                            *)
(***************************************************************************)
\* professional_tax = calculate_professional_tax(basic_salary), taken on
\* basic_salary + allowances instead
professional_tax_on_gross(emp) ==
    calculate_professional_tax(emp.basic_salary + emp.allowances)

\* professional_tax = calculate_professional_tax(basic_salary)
professional_tax(emp) == calculate_professional_tax(emp.basic_salary)

\* round(attendance_ratio, 3), in thousandths, where
\* attendance_ratio = attended_days / working_days if working_days > 0 else 0
attendance_ratio(working_days, attended_days) ==
    IF working_days > 0 THEN round(1000 * attended_days, 2 * working_days, "ratio")
    ELSE 0

\* adjusted_pf with the adjusted basic rounded to the paisa before the 12%
adjusted_pf_rounded_basic(basic_salary, working_days, attended_days) ==
    IF working_days > 0
    THEN <<round(basic_salary * attended_days, 2 * working_days, "pf") * 3, 25>>
    ELSE <<0, 1>>

\* adjusted_pf as 12% of the full basic salary, whatever the attendance
adjusted_pf_not_prorated(basic_salary, working_days, attended_days) ==
    IF working_days > 0 /\ attended_days > 0
    THEN <<basic_salary * 3, 25>>
    ELSE <<0, 1>>

\* adjusted_pf = (basic_salary * attendance_ratio) * 0.12, not rounded: the
\* exact quotient <<numerator, denominator>> in paise
adjusted_pf(basic_salary, working_days, attended_days) ==
    IF working_days > 0
    THEN <<basic_salary * attended_days * 3, 50 * working_days>>
    ELSE <<0, 1>>

\* final_prof_tax without the zero-attendance case
final_prof_tax_always(tax, attended_days) == tax

\* final_prof_tax = professional_tax if attended_days > 0 else 0.0
final_prof_tax(tax, attended_days) == IF attended_days > 0 THEN tax ELSE 0

\* round(adjusted_gross - adjusted_pf - final_prof_tax, 2): the whole paise
\* are subtracted exactly, the nearest integer to the remaining fraction added
net_salary(adjusted_gross, pf, tax) ==
    (adjusted_gross - (pf[1] \div pf[2]) - tax) + round(0 - (pf[1] % pf[2]), pf[2], "net")

calculate_payroll(emp, y, m, db) ==
    LET basic_salary == emp.basic_salary
        allowances == emp.allowances
        gross_salary == basic_salary + allowances
        working_days == get_working_days(y, m)
        attended_days == get_attended_days(emp.id, y, m, db)
        adjusted_gross ==
            apply_attendance_adjustment(gross_salary, working_days, attended_days)
        pf == adjusted_pf(basic_salary, working_days, attended_days)
        tax == final_prof_tax(professional_tax(emp), attended_days)
    IN  [op |-> "calculate_payroll",
         basic_salary |-> basic_salary,
         allowances |-> allowances,
         gross_salary |-> adjusted_gross,
         pf_contribution |-> round(pf[1], pf[2], "pf"),
         professional_tax |-> tax,
         net_salary |-> net_salary(adjusted_gross, pf, tax),
         working_days |-> working_days,
         attended_days |-> attended_days,
         attendance_ratio |-> attendance_ratio(working_days, attended_days)]

(***************************************************************************)
(* The payroll calculator: an employee, a period and an attendance table   *)
(* are drawn at the start and calculate_payroll is applied to them.        *)
(*                                                                         *)
(* The table holds, for employee 1 in the period's month, Present rows on  *)
(* the first days of the month, Absent rows on the days after them and     *)
(* Half Day rows on the last days of the month; with noise it also holds   *)
(* rows that are not the employee's or not in the month.                   *)
(***************************************************************************)
Periods == {<<2025, 1>>, <<2025, 2>>, <<2024, 2>>, <<2024, 12>>}

BasicSalaries == {2500500, 1000000, 1000001, 3000000, 3000001, 5000000}

\* calculate_payroll does not validate what it is handed, and edit_payroll
\* hands it an employee carrying the caller's overrides: the allowances drawn
\* include a negative amount
Allowances == {0, 500000, -1600460}

row(employee_id, d, status) == [employee_id |-> employee_id, date |-> d, status |-> status]

prev_month_end(y, m) ==
    IF m = 1 THEN date(y - 1, 12, 31) ELSE date(y, m - 1, monthrange(y, m - 1))

next_month_start(y, m) ==
    IF m = 12 THEN date(y + 1, 1, 1) ELSE date(y, m + 1, 1)

MonthRows(employee_id, y, m, present, half_day, absent) ==
    LET last == monthrange(y, m)
    IN  {row(employee_id, date(y, m, d), "Present") : d \in 1 .. present}
            \cup {row(employee_id, date(y, m, d), "Absent") :
                    d \in present + 1 .. present + absent}
            \cup {row(employee_id, date(y, m, d), "Half Day") :
                    d \in last - half_day + 1 .. last}

NoiseRows(employee_id, y, m) ==
    {row(employee_id, prev_month_end(y, m), "Present"),
     row(employee_id, next_month_start(y, m), "Present"),
     row(employee_id, date(y - 1, m, 1), "Half Day"),
     row(employee_id, date(y + 1, m, monthrange(y + 1, m)), "Present"),
     row(employee_id + 1, date(y, m, 1), "Present"),
     row(employee_id + 1, date(y, m, monthrange(y, m)), "Half Day")}

Init ==
    /\ fp \in [Sites -> {"down", "up"}]
    /\ \E basic \in BasicSalaries, allow \in Allowances :
          employee = [id |-> 1, basic_salary |-> basic, allowances |-> allow]
    /\ \E period \in Periods :
          /\ year = period[1]
          /\ month = period[2]
    /\ \E present \in 0 .. MaxPresent, half_day \in 0 .. MaxHalfDay,
          absent \in 0 .. MaxAbsent, noise \in BOOLEAN :
          /\ present + half_day + absent <= monthrange(year, month)
          /\ attendance = MonthRows(1, year, month, present, half_day, absent)
                            \cup (IF noise THEN NoiseRows(1, year, month) ELSE {})
    /\ salary = 0
    /\ result = None
    /\ payroll = {}
    /\ flight = {}
    /\ payslips = {}
    /\ leave_allocations = {}
    /\ leave_requests = {}
    /\ users = {}
    /\ employees = {}

CalculatePayroll ==
    /\ result = None
    /\ result' = calculate_payroll(employee, year, month, attendance)
    /\ UNCHANGED <<fp, employee, attendance, year, month, salary, payroll, flight, payslips,
                   leave_allocations, leave_requests, users, employees>>

Next == CalculatePayroll

Spec == Init /\ [][Next]_vars

(***************************************************************************)
(* What the claims speak of, stated on the drawn inputs and not through    *)
(* the operators above.                                                    *)
(***************************************************************************)
Returned == result.op = "calculate_payroll"

\* the employee's rows dated in the period's month, by the fields of the date
EventsOfMonth ==
    {r \in attendance :
        /\ r.employee_id = employee.id
        /\ r.date[1] = year
        /\ r.date[2] = month
        /\ r.date[3] \in 1 .. GregorianMonthLength(year, month)}

PresentEvents == Cardinality({r \in EventsOfMonth : r.status = "Present"})

HalfDayEvents == Cardinality({r \in EventsOfMonth : r.status = "Half Day"})

AbsentEvents == Cardinality({r \in EventsOfMonth : r.status = "Absent"})

\* attended days in half days, and the working days of the period
HalfDaysAttended == 2 * PresentEvents + HalfDayEvents

WeekdaysOfMonth == Cardinality(MondayToFriday(year, month))

Abs(x) == IF x < 0 THEN 0 - x ELSE x

\* x is num / den rounded to an integer: no integer is nearer to num / den
Rounds(x, num, den) == 2 * Abs(x * den - num) <= den

C4_ZeroAttendance ==
    Returned /\ PresentEvents = 0 /\ HalfDayEvents = 0 =>
        /\ result.attended_days = 0
        /\ result.attendance_ratio = 0
        /\ result.gross_salary = 0
        /\ result.pf_contribution = 0
        /\ result.professional_tax = 0
        /\ result.net_salary = 0

\* C4 witness: basic 50000 with one Absent event and nothing else in the month.
C4_Witness ==
    /\ Returned
    /\ employee.basic_salary = 5000000
    /\ AbsentEvents = 1 /\ PresentEvents = 0 /\ HalfDayEvents = 0
    /\ result.net_salary = 0
    /\ result.professional_tax = 0

\* C5: the attended days are (Present events) + 0.5 * (Half Day events) over
\* exactly the employee's rows dated from the first to the last day of the
\* month; other employees' rows, rows of other months and Absent rows add 0.
C5_AttendedDays ==
    Returned => result.attended_days = 2 * PresentEvents + HalfDayEvents

\* C5 witness: rows on the first and the last day of the month, an Absent
\* row, and rows of another employee and of the neighbouring months.
C5_Witness ==
    /\ Returned
    /\ PresentEvents = 3 /\ HalfDayEvents = 1 /\ AbsentEvents = 1
    /\ \E r \in attendance : r.employee_id # employee.id
    /\ \E r \in attendance : r.employee_id = employee.id /\ r.date[2] # month
    /\ \E r \in EventsOfMonth : r.date[3] = 1
    /\ \E r \in EventsOfMonth : r.date[3] = GregorianMonthLength(year, month)
    /\ result.attended_days = 7

C9_NetFromPublished ==
    Returned =>
        result.net_salary =
            result.gross_salary - result.pf_contribution - result.professional_tax

C11_NegativeNetUnclamped ==
    /\ Returned
    /\ result.attended_days > 0
    /\ result.pf_contribution + result.professional_tax > result.gross_salary
    => result.net_salary < 0

(***************************************************************************)
(* validate_payroll_data(basic_salary, allowances) -> (is_valid, message)  *)
(***************************************************************************)
\* with the zero-basic test moved before the allowances test
validate_payroll_data_zero_first(basic_salary, allowances) ==
    IF basic_salary < 0
    THEN [valid |-> FALSE, message |-> "Basic salary cannot be negative"]
    ELSE IF basic_salary = 0
    THEN [valid |-> FALSE, message |-> "Basic salary must be greater than zero"]
    ELSE IF allowances < 0
    THEN [valid |-> FALSE, message |-> "Allowances cannot be negative"]
    ELSE [valid |-> TRUE, message |-> ""]

validate_payroll_data(basic_salary, allowances) ==
    IF basic_salary < 0
    THEN [valid |-> FALSE, message |-> "Basic salary cannot be negative"]
    ELSE IF allowances < 0
    THEN [valid |-> FALSE, message |-> "Allowances cannot be negative"]
    ELSE IF basic_salary = 0
    THEN [valid |-> FALSE, message |-> "Basic salary must be greater than zero"]
    ELSE [valid |-> TRUE, message |-> ""]

(***************************************************************************)
(* The validator on its own: both amounts are drawn at the start, a paisa  *)
(* either side of zero and steps of 5000 rupees either side of zero.       *)
(***************************************************************************)
ValidateAmounts ==
    {d * 500000 : d \in (0 - MaxValidateSteps) .. MaxValidateSteps} \cup {-1, 1}

InitValidate ==
    /\ \E basic \in ValidateAmounts, allow \in ValidateAmounts :
          employee = [id |-> 0, basic_salary |-> basic, allowances |-> allow]
    /\ year = 2025
    /\ month = 1
    /\ fp = NoFp
    /\ attendance = {}
    /\ salary = 0
    /\ result = None
    /\ payroll = {}
    /\ flight = {}
    /\ payslips = {}
    /\ leave_allocations = {}
    /\ leave_requests = {}
    /\ users = {}
    /\ employees = {}

ValidatePayrollData ==
    /\ result = None
    /\ result' = [op |-> "validate_payroll_data",
                  returned |-> validate_payroll_data(employee.basic_salary,
                                                     employee.allowances)]
    /\ UNCHANGED <<fp, employee, attendance, year, month, salary, payroll, flight, payslips,
                   leave_allocations, leave_requests, users, employees>>

NextValidate == ValidatePayrollData

SpecValidate == InitValidate /\ [][NextValidate]_vars

\* C19: validate_payroll_data returns (True, "") exactly when basic > 0 and
\* allowances >= 0; otherwise (False, message), the message reporting a
\* negative basic first, then negative allowances, then a zero basic.
C19_ValidateOrder ==
    result.op = "validate_payroll_data" =>
        LET basic == employee.basic_salary
            allow == employee.allowances
            ret == result.returned
        IN  /\ ret.valid = (basic > 0 /\ allow >= 0)
            /\ (ret.valid => ret.message = "")
            /\ (~ret.valid => ret.message # "")
            /\ (basic < 0 => ret.message = "Basic salary cannot be negative")
            /\ (basic >= 0 /\ allow < 0 => ret.message = "Allowances cannot be negative")
            /\ (basic = 0 /\ allow >= 0 =>
                    ret.message = "Basic salary must be greater than zero")

\* C19 witness: basic = 0 with negative allowances reports the allowances.
C19_Witness ==
    /\ result.op = "validate_payroll_data"
    /\ employee.basic_salary = 0
    /\ employee.allowances < 0
    /\ result.returned = [valid |-> FALSE, message |-> "Allowances cannot be negative"]

(***************************************************************************)
(* The payroll routes (backend/routes/payroll.py) over the payroll table.  *)
(*                                                                         *)
(* A response is [status, detail, calls, body]: the HTTP status, the       *)
(* detail of the error, the steps of the handler that ran, in order, and   *)
(* the row returned ({} when the handler raised).  An exception that no    *)
(* handler catches leaves the application as status 500.                   *)
(***************************************************************************)
response(status, detail, calls, body) ==
    [status |-> status, detail |-> detail, calls |-> calls, body |-> body]

\* db.query(Employee).filter(Employee.id == employee_id).first()
employee_lookup(employee_id) ==
    IF employee.id = employee_id THEN {employee} ELSE {}

\* db.query(Payroll).filter(employee_id, month, year).first()
existing_payroll(employee_id, m, y, table) ==
    {pr \in table : pr.employee_id = employee_id /\ pr.month = m /\ pr.year = y}

\* the Payroll object generate_payrun builds; its id is handed out on insert
new_payroll(employee_id, m, y, calc) ==
    [employee_id |-> employee_id,
     month |-> m,
     year |-> y,
     basic_salary |-> calc.basic_salary,
     allowances |-> calc.allowances,
     gross_salary |-> calc.gross_salary,
     pf_contribution |-> calc.pf_contribution,
     professional_tax |-> calc.professional_tax,
     net_salary |-> calc.net_salary,
     status |-> "Processed"]

with_id(pr, id) == [f \in DOMAIN pr \cup {"id"} |-> IF f = "id" THEN id ELSE pr[f]]

\* a primary key no row of the table has (the key after the largest one)
next_id(table) ==
    IF table = {} THEN 1
    ELSE 1 + CHOOSE n \in {r.id : r \in table} : \A r \in table : r.id <= n

\* without the lookup of an existing row for the period
generate_payrun_lookups_no_existing(employee_id, m, y, db, table) ==
    IF employee_lookup(employee_id) = {}
    THEN response(404, "Employee not found", <<"employee_lookup">>, {})
    ELSE IF m \notin 1 .. 12
    THEN response(500, "IllegalMonthError",
                  <<"employee_lookup", "existing_lookup", "calculate_payroll",
                    "get_working_days">>, {})
    ELSE response(200, "",
                  <<"employee_lookup", "existing_lookup", "calculate_payroll",
                    "get_working_days", "get_attended_days">>,
                  {new_payroll(employee_id, m, y,
                               calculate_payroll(employee, y, m, db))})

\* with calculate_payroll run on the employee row before the row is tested
generate_payrun_lookups_calc_first(employee_id, m, y, db, table) ==
    IF m \notin 1 .. 12
    THEN response(500, "IllegalMonthError",
                  <<"employee_lookup", "calculate_payroll", "get_working_days">>, {})
    ELSE IF employee_lookup(employee_id) = {}
    THEN response(404, "Employee not found",
                  <<"employee_lookup", "calculate_payroll", "get_working_days",
                    "get_attended_days">>, {})
    ELSE IF existing_payroll(employee_id, m, y, table) # {}
    THEN response(400, "Payroll already generated for this period",
                  <<"employee_lookup", "calculate_payroll", "get_working_days",
                    "get_attended_days", "existing_lookup">>, {})
    ELSE response(200, "",
                  <<"employee_lookup", "calculate_payroll", "get_working_days",
                    "get_attended_days", "existing_lookup">>,
                  {new_payroll(employee_id, m, y,
                               calculate_payroll(employee, y, m, db))})

\* generate_payrun up to db.add: the response when it raises, and otherwise
\* status 200 with the row it is about to insert.  calendar.monthrange
\* raises IllegalMonthError for a month outside 1..12, inside
\* get_working_days, and nothing catches it.
generate_payrun_lookups(employee_id, m, y, db, table) ==
    IF employee_lookup(employee_id) = {}
    THEN response(404, "Employee not found", <<"employee_lookup">>, {})
    ELSE IF existing_payroll(employee_id, m, y, table) # {}
    THEN response(400, "Payroll already generated for this period",
                  <<"employee_lookup", "existing_lookup">>, {})
    ELSE IF m \notin 1 .. 12
    THEN response(500, "IllegalMonthError",
                  <<"employee_lookup", "existing_lookup", "calculate_payroll",
                    "get_working_days">>, {})
    ELSE response(200, "",
                  <<"employee_lookup", "existing_lookup", "calculate_payroll",
                    "get_working_days", "get_attended_days">>,
                  {new_payroll(employee_id, m, y,
                               calculate_payroll(employee, y, m, db))})

\* without the unique constraint of the table
commit_payroll_unconstrained(pr, table) ==
    [table |-> table \cup {with_id(pr, next_id(table))},
     response |-> response(200, "", <<"commit">>, {with_id(pr, next_id(table))})]

\* db.add(payroll); db.commit(); db.refresh(payroll): the insert fails with
\* IntegrityError when the table holds a row of the same
\* (employee_id, month, year), and nothing catches it
commit_payroll(pr, table) ==
    IF existing_payroll(pr.employee_id, pr.month, pr.year, table) # {}
    THEN [table |-> table,
          response |-> response(500, "IntegrityError", <<"commit">>, {})]
    ELSE [table |-> table \cup {with_id(pr, next_id(table))},
          response |-> response(200, "", <<"commit">>, {with_id(pr, next_id(table))})]

\* with the row of a period that has one computed again and overwritten
generate_payrun_upsert(employee_id, m, y, db, table) ==
    LET looked == generate_payrun_lookups_no_existing(employee_id, m, y, db, table)
        kept == table \ existing_payroll(employee_id, m, y, table)
    IN  IF looked.status # 200
        THEN [table |-> table, response |-> looked]
        ELSE LET pr == CHOOSE r \in looked.body : TRUE
                 done == commit_payroll(pr, kept)
             IN  [table |-> done.table,
                  response |-> response(done.response.status, done.response.detail,
                                        looked.calls \o done.response.calls,
                                        done.response.body)]

\* generate_payrun as one request served alone
generate_payrun(employee_id, m, y, db, table) ==
    LET looked == generate_payrun_lookups(employee_id, m, y, db, table)
    IN  IF looked.status # 200
        THEN [table |-> table, response |-> looked]
        ELSE LET pr == CHOOSE r \in looked.body : TRUE
                 done == commit_payroll(pr, table)
             IN  [table |-> done.table,
                  response |-> response(done.response.status, done.response.detail,
                                        looked.calls \o done.response.calls,
                                        done.response.body)]

\* an optional query parameter is {} when absent and {v} when given
given_or(parameter, stored) ==
    IF parameter = {} THEN stored ELSE CHOOSE v \in parameter : TRUE

\* with the gross salary left as the earlier computation stored it
edit_payroll_row_stale_gross(pr, emp, basic_salary, allowances, db) ==
    LET basic == given_or(basic_salary, pr.basic_salary)
        allow == given_or(allowances, pr.allowances)
        calc == calculate_payroll([emp EXCEPT !.basic_salary = basic,
                                              !.allowances = allow],
                                  pr.year, pr.month, db)
    IN  [pr EXCEPT !.basic_salary = basic,
                   !.allowances = allow,
                   !.pf_contribution = calc.pf_contribution,
                   !.professional_tax = calc.professional_tax,
                   !.net_salary = calc.net_salary]

\* with the calculation run on the employee's own salary and allowances
edit_payroll_row_own_salary(pr, emp, basic_salary, allowances, db) ==
    LET basic == given_or(basic_salary, pr.basic_salary)
        allow == given_or(allowances, pr.allowances)
        calc == calculate_payroll(emp, pr.year, pr.month, db)
    IN  [pr EXCEPT !.basic_salary = basic,
                   !.allowances = allow,
                   !.gross_salary = calc.gross_salary,
                   !.pf_contribution = calc.pf_contribution,
                   !.professional_tax = calc.professional_tax,
                   !.net_salary = calc.net_salary]

\* the row edit_payroll commits: the overrides are written to the row, the
\* employee carries them for the length of the calculation, and the four
\* computed fields are taken from the calculation
edit_payroll_row(pr, emp, basic_salary, allowances, db) ==
    LET basic == given_or(basic_salary, pr.basic_salary)
        allow == given_or(allowances, pr.allowances)
        calc == calculate_payroll([emp EXCEPT !.basic_salary = basic,
                                              !.allowances = allow],
                                  pr.year, pr.month, db)
    IN  [pr EXCEPT !.basic_salary = basic,
                   !.allowances = allow,
                   !.gross_salary = calc.gross_salary,
                   !.pf_contribution = calc.pf_contribution,
                   !.professional_tax = calc.professional_tax,
                   !.net_salary = calc.net_salary]

\* without the two assignments that restore the employee's own values
employee_after_edit_not_restored(emp, pr) ==
    [emp EXCEPT !.basic_salary = pr.basic_salary, !.allowances = pr.allowances]

\* the Employee row as the commit of edit_payroll finds it: its values are
\* backed up, replaced by the row's for the calculation, and assigned back
employee_after_edit(emp, pr) ==
    LET emp_basic_backup == emp.basic_salary
        emp_allow_backup == emp.allowances
        carrying == [emp EXCEPT !.basic_salary = pr.basic_salary,
                                !.allowances = pr.allowances]
    IN  [carrying EXCEPT !.basic_salary = emp_basic_backup,
                         !.allowances = emp_allow_backup]

edit_payroll(payroll_id, basic_salary, allowances, db, table) ==
    LET found == {pr \in table : pr.id = payroll_id}
    IN  IF found = {}
        THEN [table |-> table,
              employee |-> employee,
              response |-> response(404, "Payroll record not found",
                                    <<"payroll_lookup">>, {})]
        ELSE LET pr == CHOOSE r \in found : TRUE
                 emps == employee_lookup(pr.employee_id)
             IN  IF emps = {}
                 THEN [table |-> table,
                       employee |-> employee,
                       response |-> response(404, "Associated employee not found",
                                             <<"payroll_lookup", "employee_lookup">>,
                                             {})]
                 ELSE LET emp == CHOOSE e \in emps : TRUE
                          edited == edit_payroll_row(pr, emp, basic_salary,
                                                     allowances, db)
                      IN  [table |-> (table \ {pr}) \cup {edited},
                           employee |-> employee_after_edit(emp, edited),
                           response |-> response(200, "",
                                                 <<"payroll_lookup", "employee_lookup",
                                                   "calculate_payroll", "commit">>,
                                                 {edited})]

\* date.today() of generate_payslips
Today == date(2025, 2, 3)

\* with a payslip added for every row found, whether or not it has one
generate_payslips_no_existing_lookup(m, y, table, slips) ==
    LET processed == {p \in table :
                        p.month = m /\ p.year = y /\ p.status = "Processed"}
        added == {[id |-> next_id(slips)
                            + Cardinality({q \in processed : q.id < p.id}),
                   payroll_id |-> p.id,
                   employee_id |-> p.employee_id,
                   payout_date |-> Today] : p \in processed}
    IN  [slips |-> slips \cup added,
         response |-> response(200, "", <<"processed_lookup", "commit">>,
                               {[count |-> Cardinality(processed), success |-> TRUE]})]

\* generate_payslips: a Payslip for every Processed row of the month and
\* year that has none, in the order of the rows' ids; the message carries
\* the count of those added
generate_payslips(m, y, table, slips) ==
    LET processed == {p \in table :
                        p.month = m /\ p.year = y /\ p.status = "Processed"}
        fresh == {p \in processed : \A ps \in slips : ps.payroll_id # p.id}
        added == {[id |-> next_id(slips)
                            + Cardinality({q \in fresh : q.id < p.id}),
                   payroll_id |-> p.id,
                   employee_id |-> p.employee_id,
                   payout_date |-> Today] : p \in fresh}
    IN  [slips |-> slips \cup added,
         response |-> response(200, "", <<"processed_lookup", "commit">>,
                               {[count |-> Cardinality(fresh), success |-> TRUE]})]

(***************************************************************************)
(* The attendance routes (backend/routes/attendance.py) that write the     *)
(* attendance table read by calculate_payroll.                             *)
(***************************************************************************)
\* without the lookup of a row of the same date
mark_attendance_no_duplicate_lookup(emp, d, status, db) ==
    LET new_att == with_id(row(emp.id, d, status), next_id(db))
    IN  [table |-> db \cup {new_att},
         response |-> response(201, "", <<"commit">>, {new_att})]

\* mark_attendance of the employee of the current user
mark_attendance(emp, d, status, db) ==
    IF {r \in db : r.employee_id = emp.id /\ r.date = d} # {}
    THEN [table |-> db,
          response |-> response(400, "Attendance already marked for this date",
                                <<"duplicate_lookup">>, {})]
    ELSE LET new_att == with_id(row(emp.id, d, status), next_id(db))
         IN  [table |-> db \cup {new_att},
              response |-> response(201, "", <<"duplicate_lookup", "commit">>,
                                    {new_att})]

edit_attendance(attendance_id, d, status, db) ==
    LET found == {r \in db : r.id = attendance_id}
    IN  IF found = {}
        THEN [table |-> db,
              response |-> response(404, "Attendance record not found",
                                    <<"attendance_lookup">>, {})]
        ELSE LET record == CHOOSE r \in found : TRUE
             IN  IF /\ d # record.date
                    /\ {r \in db : r.employee_id = record.employee_id /\ r.date = d} # {}
                 THEN [table |-> db,
                       response |-> response(400,
                                             "Another attendance already exists for this date",
                                             <<"attendance_lookup", "duplicate_lookup">>,
                                             {})]
                 ELSE LET edited == [record EXCEPT !.date = d, !.status = status]
                      IN  [table |-> (db \ {record}) \cup {edited},
                           response |-> response(200, "",
                                                 <<"attendance_lookup", "commit">>,
                                                 {edited})]

(***************************************************************************)
(* The routes served one request at a time.  The store starts with one     *)
(* employee (id 1) and no attendance or payroll rows; every request is     *)
(* drawn from the sets below, which hold an employee id, a payroll id and  *)
(* an attendance id that no row ever has, and a month that no calendar     *)
(* has; January 2025 is the one period a payroll row can be stored for.   *)
(* result keeps the last request, its response and, for an edit, the row   *)
(* as it was found.                                                        *)
(***************************************************************************)
RouteEmployeeIds == {1, 2}

RouteMonths == {1, 13}

RouteYears == {2025}

PayrollIds == {1, 3}

BasicOverrides == {{}, {0}, {4000000}}

AllowanceOverrides == {{}, {-100000}}

\* the dates asked of mark_attendance, and of edit_attendance
MarkDates == {date(2025, 1, 2)}

AttendanceDates == {date(2025, 1, 2), date(2025, 1, 3)}

AttendanceIds == {1, 3}

FpSides == {[site \in Sites |-> side] : side \in {"down", "up"}}

InitRoutes ==
    /\ fp \in FpSides
    /\ employee = [id |-> 1, basic_salary |-> 3000000, allowances |-> 500000]
    /\ attendance = {}
    /\ payroll = {}
    /\ flight = {}
    /\ payslips = {}
    /\ leave_allocations = {}
    /\ leave_requests = {}
    /\ users = {}
    /\ employees = {}
    /\ year = 2025
    /\ month = 1
    /\ salary = 0
    /\ result = None

GeneratePayrun ==
    \E employee_id \in RouteEmployeeIds, m \in RouteMonths, y \in RouteYears :
        LET done == generate_payrun(employee_id, m, y, attendance, payroll)
        IN  /\ payroll' = done.table
            /\ result' = [op |-> "generate_payrun",
                          request |-> [employee_id |-> employee_id,
                                       month |-> m, year |-> y],
                          response |-> done.response,
                          before |-> {}]
            /\ UNCHANGED <<fp, employee, attendance, year, month, salary, flight, payslips,
                   leave_allocations, leave_requests, users, employees>>

EditPayroll ==
    \E payroll_id \in PayrollIds, basic_salary \in BasicOverrides,
       allowances \in AllowanceOverrides :
        LET done == edit_payroll(payroll_id, basic_salary, allowances,
                                 attendance, payroll)
        IN  /\ payroll' = done.table
            /\ employee' = done.employee
            /\ result' = [op |-> "edit_payroll",
                          request |-> [payroll_id |-> payroll_id,
                                       basic_salary |-> basic_salary,
                                       allowances |-> allowances],
                          response |-> done.response,
                          before |-> {pr \in payroll : pr.id = payroll_id}]
            /\ UNCHANGED <<fp, attendance, year, month, salary, flight, payslips,
                   leave_allocations, leave_requests, users, employees>>

MarkAttendance ==
    \E d \in MarkDates, status \in AttendanceStatus :
        LET done == mark_attendance(employee, d, status, attendance)
        IN  /\ attendance' = done.table
            /\ result' = [op |-> "mark_attendance",
                          request |-> [attendance_date |-> d, status |-> status],
                          response |-> done.response,
                          before |-> {}]
            /\ UNCHANGED <<fp, employee, year, month, salary, payroll, flight, payslips,
                   leave_allocations, leave_requests, users, employees>>

EditAttendance ==
    \E attendance_id \in AttendanceIds, d \in AttendanceDates,
       status \in AttendanceStatus :
        LET done == edit_attendance(attendance_id, d, status, attendance)
        IN  /\ attendance' = done.table
            /\ result' = [op |-> "edit_attendance",
                          request |-> [attendance_id |-> attendance_id,
                                       attendance_date |-> d, status |-> status],
                          response |-> done.response,
                          before |-> {r \in attendance : r.id = attendance_id}]
            /\ UNCHANGED <<fp, employee, year, month, salary, payroll, flight, payslips,
                   leave_allocations, leave_requests, users, employees>>

GeneratePayslips ==
    \E m \in RouteMonths, y \in RouteYears :
        LET done == generate_payslips(m, y, payroll, payslips)
        IN  /\ payslips' = done.slips
            /\ result' = [op |-> "generate_payslips",
                          request |-> [month |-> m, year |-> y],
                          response |-> done.response,
                          before |-> {}]
            /\ UNCHANGED <<fp, employee, attendance, year, month, salary, payroll,
                           flight,
                   leave_allocations, leave_requests, users, employees>>

NextRoutes ==
    \/ GeneratePayrun
    \/ EditPayroll
    \/ MarkAttendance
    \/ EditAttendance
    \/ GeneratePayslips

SpecRoutes == InitRoutes /\ [][NextRoutes]_vars

(***************************************************************************)
(* What the claims about the routes speak of.                              *)
(***************************************************************************)
SameKey(a, b) ==
    a.employee_id = b.employee_id /\ a.month = b.month /\ a.year = b.year

\* the table holds a row for the period a generate_payrun request names
KeyTaken(request, table) ==
    \E pr \in table : SameKey(pr, request)

Ok(res) == res.response.status = 200

\* C13: served one at a time, generate_payrun and edit_payroll never leave
\* two Payroll rows of one (employee_id, month, year); a generate_payrun for
\* a period that has a row answers 400 and leaves the table as it was; an
\* edit_payroll that succeeds leaves the ids and periods of the table as
\* they were, replacing the one row it was asked to edit.
C13_OneRecordPerKey ==
    [][/\ \A a, b \in payroll' : SameKey(a, b) => a = b
       /\ (result'.op = "generate_payrun" /\ KeyTaken(result'.request, payroll)
             => result'.response.status = 400 /\ payroll' = payroll)
       /\ (result'.op = "edit_payroll" /\ Ok(result')
             => /\ Cardinality(payroll') = Cardinality(payroll)
                /\ {<<pr.id, pr.employee_id, pr.month, pr.year>> : pr \in payroll'}
                     = {<<pr.id, pr.employee_id, pr.month, pr.year>> : pr \in payroll}
                /\ \A pr \in payroll :
                     pr.id # result'.request.payroll_id => pr \in payroll')]_vars

\* C13 witness: a generate_payrun rejected with 400 for a period whose one
\* row carries an edit_payroll override.
C13_Witness ==
    /\ result.op = "generate_payrun"
    /\ result.response.status = 400
    /\ result.response.detail = "Payroll already generated for this period"
    /\ Cardinality(payroll) = 1
    /\ \E pr \in payroll :
          /\ SameKey(pr, result.request)
          /\ pr.basic_salary = 4000000
          /\ pr.basic_salary # employee.basic_salary

(***************************************************************************)
(* generate_payrun served by several workers at once.  A request runs its  *)
(* lookups and the calculation in one step and its commit in a later one;  *)
(* between the two it is in flight, holding the row it is about to insert, *)
(* and other requests may run.                                             *)
(***************************************************************************)
Requests == 1 .. MaxRequests

RaceMonths == {1, 2, 13}

InitRace ==
    /\ fp \in FpSides
    /\ employee = [id |-> 1, basic_salary |-> 3000000, allowances |-> 500000]
    /\ attendance = MonthRows(1, 2025, 1, 2, 1, 0)
    /\ payroll = {}
    /\ flight = {}
    /\ payslips = {}
    /\ leave_allocations = {}
    /\ leave_requests = {}
    /\ users = {}
    /\ employees = {}
    /\ year = 2025
    /\ month = 1
    /\ salary = 0
    /\ result = None

GenerateLookup ==
    \E request \in Requests, employee_id \in RouteEmployeeIds,
       m \in RaceMonths, y \in RouteYears :
        LET looked == generate_payrun_lookups(employee_id, m, y, attendance, payroll)
            asked == [request |-> request, employee_id |-> employee_id,
                      month |-> m, year |-> y]
        IN  /\ \A f \in flight : f.request # request
            /\ flight' = IF looked.status = 200
                         THEN flight \cup {[request |-> request, asked |-> asked,
                                            looked |-> looked]}
                         ELSE flight
            /\ result' = [op |-> "generate_lookup", request |-> asked,
                          response |-> looked, before |-> {}]
            /\ UNCHANGED <<fp, employee, attendance, year, month, salary, payroll, payslips,
                   leave_allocations, leave_requests, users, employees>>

GenerateCommit ==
    \E f \in flight :
        LET pr == CHOOSE r \in f.looked.body : TRUE
            done == commit_payroll(pr, payroll)
        IN  /\ payroll' = done.table
            /\ flight' = flight \ {f}
            /\ result' = [op |-> "generate_commit", request |-> f.asked,
                          response |-> response(done.response.status,
                                                done.response.detail,
                                                f.looked.calls \o done.response.calls,
                                                done.response.body),
                          before |-> {}]
            /\ UNCHANGED <<fp, employee, attendance, year, month, salary, payslips,
                   leave_allocations, leave_requests, users, employees>>

NextRace ==
    \/ GenerateLookup
    \/ GenerateCommit

SpecRace == InitRace /\ [][NextRace]_vars

\* C14: with generate_payrun requests interleaved, no state holds two
\* Payroll rows of one (employee_id, month, year): a request that passed the
\* lookup and commits when the period has a row fails in the commit, on the
\* unique constraint, and the table stays as it was.
C14_RaceOneRecord ==
    [][/\ \A a \in payroll' : \A b \in payroll' \ {a} : ~SameKey(a, b)
       /\ (result'.op = "generate_commit" /\ KeyTaken(result'.request, payroll)
             => /\ result'.response.status = 500
                /\ result'.response.detail = "IntegrityError"
                /\ payroll' = payroll)]_vars

\* C14 witness: a request that passed the lookup failed in its commit, and
\* the period it asked for has the one row of the request that committed
\* before it.
C14_Witness ==
    /\ result.op = "generate_commit"
    /\ result.response.status = 500
    /\ "existing_lookup" \in {result.response.calls[i] :
                                i \in DOMAIN result.response.calls}
    /\ Cardinality({pr \in payroll : SameKey(pr, result.request)}) = 1

\* C15: after an edit_payroll that succeeds the row keeps its id,
\* employee_id, month and year, its basic_salary and allowances are the
\* overrides where given and the stored values otherwise, and gross_salary,
\* pf_contribution, professional_tax and net_salary are those that
\* calculate_payroll returns for that basic_salary and allowances in that
\* month and year.
C15_EditRederivesAll ==
    result.op = "edit_payroll" /\ Ok(result) =>
        \E before \in result.before, after \in result.response.body :
            LET calc == calculate_payroll([id |-> after.employee_id,
                                           basic_salary |-> after.basic_salary,
                                           allowances |-> after.allowances],
                                          after.year, after.month, attendance)
            IN  /\ after \in payroll
                /\ after.id = before.id
                /\ after.employee_id = before.employee_id
                /\ after.month = before.month
                /\ after.year = before.year
                /\ (result.request.basic_salary = {}
                      => after.basic_salary = before.basic_salary)
                /\ (\A v \in result.request.basic_salary : after.basic_salary = v)
                /\ (result.request.allowances = {}
                      => after.allowances = before.allowances)
                /\ (\A v \in result.request.allowances : after.allowances = v)
                /\ after.gross_salary = calc.gross_salary
                /\ after.pf_contribution = calc.pf_contribution
                /\ after.professional_tax = calc.professional_tax
                /\ after.net_salary = calc.net_salary

\* C15 witness: an edit with both overrides given, after which none of the
\* four computed fields is what the row held before.
C15_Witness ==
    /\ result.op = "edit_payroll"
    /\ Ok(result)
    /\ result.request.basic_salary = {4000000}
    /\ result.request.allowances = {-100000}
    /\ \E before \in result.before, after \in result.response.body :
          /\ before.basic_salary = employee.basic_salary
          /\ before.gross_salary > 0
          /\ after.basic_salary = 4000000
          /\ after.allowances = -100000
          /\ after.gross_salary # before.gross_salary
          /\ after.pf_contribution # before.pf_contribution
          /\ after.professional_tax # before.professional_tax
          /\ after.net_salary # before.net_salary

\* attended half days of an employee in a month, counted on the attendance
\* table as it is now
HalfDaysOf(employee_id, y, m) ==
    LET rows == {r \in attendance :
                    /\ r.employee_id = employee_id
                    /\ r.date[1] = y
                    /\ r.date[2] = m}
    IN  2 * Cardinality({r \in rows : r.status = "Present"})
          + Cardinality({r \in rows : r.status = "Half Day"})

\* C16: the row an edit_payroll stores is computed from the attendance table
\* as it is at the edit: its gross_salary is (basic + allowances) scaled by
\* the days attended now over the working days, to the nearest paisa, and
\* its professional_tax is 0 exactly when no day is attended now.
C16_EditReadsAttendanceFresh ==
    result.op = "edit_payroll" /\ Ok(result) =>
        \A after \in result.response.body :
            LET attended == HalfDaysOf(after.employee_id, after.year, after.month)
                working == Cardinality(MondayToFriday(after.year, after.month))
            IN  /\ Rounds(after.gross_salary,
                          (after.basic_salary + after.allowances) * attended,
                          2 * working)
                /\ (attended = 0 => after.professional_tax = 0)
                /\ (attended > 0 =>
                      after.professional_tax
                        = calculate_professional_tax(after.basic_salary))

\* C16 witness: an edit without overrides stores a gross_salary other than
\* the one the row held, computed when the attendance was different.
C16_Witness ==
    /\ result.op = "edit_payroll"
    /\ Ok(result)
    /\ result.request.basic_salary = {}
    /\ result.request.allowances = {}
    /\ \E before \in result.before, after \in result.response.body :
          /\ after.basic_salary = before.basic_salary
          /\ after.allowances = before.allowances
          /\ before.gross_salary > 0
          /\ after.gross_salary > before.gross_salary
          /\ HalfDaysOf(after.employee_id, after.year, after.month) = 4

\* C17: no Payroll row is stored from a basic_salary that is not positive or
\* from negative allowances, and an edit_payroll whose overrides are such a
\* basic_salary or such allowances does not succeed.
C17_InvalidCompensationRejected ==
    /\ \A pr \in payroll : pr.basic_salary > 0 /\ pr.allowances >= 0
    /\ (/\ result.op = "edit_payroll"
        /\ \/ \E v \in result.request.basic_salary : v <= 0
           \/ \E v \in result.request.allowances : v < 0
        => ~Ok(result))

\* C18: a generate_payrun for a month outside 1..12 answers with a client
\* error, get_working_days is not among the steps that ran, and no Payroll
\* row is stored for that month.
C18_InvalidMonthRejected ==
    /\ \A pr \in payroll : pr.month \in 1 .. 12
    /\ (result.op = "generate_payrun" /\ result.request.month \notin 1 .. 12
        => /\ result.response.status \in 400 .. 499
           /\ \A i \in DOMAIN result.response.calls :
                 result.response.calls[i] # "get_working_days")

\* C20: a generate_payrun for an employee_id that no Employee row has
\* answers 404 after the employee lookup alone (no duplicate lookup, no
\* calculation) and leaves the payroll table as it was; an edit_payroll for
\* an id that no Payroll row has answers 404 and leaves the table as it was.
C20_NotFoundFirst ==
    [][/\ (result'.op = "generate_payrun"
             /\ result'.request.employee_id # employee.id
           => /\ result'.response.status = 404
              /\ result'.response.detail = "Employee not found"
              /\ result'.response.calls = <<"employee_lookup">>
              /\ payroll' = payroll)
       /\ (result'.op = "edit_payroll"
             /\ (\A pr \in payroll : pr.id # result'.request.payroll_id)
           => /\ result'.response.status = 404
              /\ result'.response.detail = "Payroll record not found"
              /\ payroll' = payroll)]_vars

\* C20 witness: 404 for an unknown employee and a month for which the
\* calculation would have raised, with a row in the table.
C20_Witness ==
    /\ result.op = "generate_payrun"
    /\ result.request.employee_id # employee.id
    /\ result.request.month = 13
    /\ result.response.status = 404
    /\ payroll # {}

SameDay(a, b) == a.employee_id = b.employee_id /\ a.date = b.date

\* C21: mark_attendance and edit_attendance never leave two attendance rows
\* of one (employee_id, date); marking a date that has a row answers 400,
\* moving a row to a date where the employee has another row answers 400,
\* and both leave the table as it was.
C21_OneAttendancePerDay ==
    [][/\ \A a \in attendance' : \A b \in attendance' \ {a} : ~SameDay(a, b)
       /\ (/\ result'.op = "mark_attendance"
           /\ \E r \in attendance :
                 /\ r.employee_id = employee.id
                 /\ r.date = result'.request.attendance_date
           => /\ result'.response.status = 400
              /\ attendance' = attendance)
       /\ (/\ result'.op = "edit_attendance"
           /\ \E record \in attendance : \E other \in attendance \ {record} :
                 /\ record.id = result'.request.attendance_id
                 /\ other.employee_id = record.employee_id
                 /\ other.date = result'.request.attendance_date
           => /\ result'.response.status = 400
              /\ attendance' = attendance)]_vars

\* C21 witness: an edit_attendance that would move a row onto the date of
\* another row of the employee was answered 400.
C21_Witness ==
    /\ result.op = "edit_attendance"
    /\ result.response.status = 400
    /\ result.response.detail = "Another attendance already exists for this date"
    /\ Cardinality(attendance) = 2
    /\ \E r \in attendance :
          r.id # result.request.attendance_id
            /\ r.date = result.request.attendance_date

PayslipMonths == {1, 2}

InitPayslips ==
    /\ fp \in FpSides
    /\ employee = [id |-> 1, basic_salary |-> 3000000, allowances |-> 500000]
    /\ attendance = MonthRows(1, 2025, 1, 2, 1, 0)
    /\ payroll = {}
    /\ flight = {}
    /\ payslips = {}
    /\ leave_allocations = {}
    /\ leave_requests = {}
    /\ users = {}
    /\ employees = {}
    /\ year = 2025
    /\ month = 1
    /\ salary = 0
    /\ result = None

GeneratePayrunOfMonth ==
    \E employee_id \in RouteEmployeeIds, m \in PayslipMonths, y \in RouteYears :
        LET done == generate_payrun(employee_id, m, y, attendance, payroll)
        IN  /\ payroll' = done.table
            /\ result' = [op |-> "generate_payrun",
                          request |-> [employee_id |-> employee_id,
                                       month |-> m, year |-> y],
                          response |-> done.response,
                          before |-> {}]
            /\ UNCHANGED <<fp, employee, attendance, year, month, salary, flight,
                           payslips,
                   leave_allocations, leave_requests, users, employees>>

GeneratePayslipsOfMonth ==
    \E m \in PayslipMonths, y \in RouteYears :
        LET done == generate_payslips(m, y, payroll, payslips)
        IN  /\ payslips' = done.slips
            /\ result' = [op |-> "generate_payslips",
                          request |-> [month |-> m, year |-> y],
                          response |-> done.response,
                          before |-> {}]
            /\ UNCHANGED <<fp, employee, attendance, year, month, salary, payroll,
                           flight,
                   leave_allocations, leave_requests, users, employees>>

NextPayslips ==
    \/ GeneratePayrunOfMonth
    \/ EditPayroll
    \/ GeneratePayslipsOfMonth

SpecPayslips == InitPayslips /\ [][NextPayslips]_vars

\* C23: edit_payroll leaves the Employee row's own basic_salary and
\* allowances as they were before the call, so the row a later
\* generate_payrun stores carries the employee's own values and not the
\* overrides of an earlier edit.
C23_EmployeeRestored ==
    [][/\ (result'.op = "edit_payroll" => employee' = employee)
       /\ (result'.op = "generate_payrun" /\ Ok(result')
             => \A pr \in result'.response.body :
                   /\ pr.basic_salary = 3000000
                   /\ pr.allowances = 500000)]_vars

\* C23 witness: a row generated for another month with the employee's own
\* values after the row of January was edited with both overrides.
C23_Witness ==
    /\ result.op = "generate_payrun"
    /\ Ok(result)
    /\ result.request.month = 2
    /\ \E pr \in payroll :
          pr.month = 1 /\ pr.basic_salary = 4000000 /\ pr.allowances = -100000
    /\ \E pr \in payroll :
          pr.month = 2 /\ pr.basic_salary = 3000000 /\ pr.allowances = 500000
    /\ employee.basic_salary = 3000000
    /\ employee.allowances = 500000

\* C27: every Payroll row has at most one Payslip and every Payslip belongs
\* to a Processed row; a generate_payslips adds payslips only, one for each
\* row of the month and year asked for that had none, and reports the number
\* it added, so a call that finds no row without a payslip adds none and
\* reports 0.
C27_OnePayslipPerPayroll ==
    [][/\ \A pr \in payroll' :
             Cardinality({ps \in payslips' : ps.payroll_id = pr.id}) <= 1
       /\ \A ps \in payslips' : \E pr \in payroll' :
             /\ pr.id = ps.payroll_id
             /\ pr.employee_id = ps.employee_id
             /\ pr.status = "Processed"
       /\ (result'.op = "generate_payslips"
             => /\ payslips \subseteq payslips'
                /\ \A ps \in payslips' \ payslips : \E pr \in payroll :
                      /\ pr.id = ps.payroll_id
                      /\ pr.month = result'.request.month
                      /\ pr.year = result'.request.year
                /\ \A body \in result'.response.body :
                      body.count = Cardinality(payslips' \ payslips))
       /\ (result'.op # "generate_payslips" => payslips' = payslips)]_vars

\* C27 witness: a second generate_payslips for a month whose row has its
\* payslip reports 0, with the row of the other month still without one.
C27_Witness ==
    /\ result.op = "generate_payslips"
    /\ \A body \in result.response.body : body.count = 0
    /\ Cardinality(payroll) = 2
    /\ Cardinality(payslips) = 1
    /\ \E pr \in payroll : \E ps \in payslips :
          /\ ps.payroll_id = pr.id
          /\ pr.month = result.request.month
          /\ pr.year = result.request.year

(***************************************************************************)
(* monthly_attendance(employee_id, month, year)                            *)
(*                                                                         *)
(* The end of the range is date(year, month + 1, 1) - datetime.resolution. *)
(* datetime.resolution is timedelta(microseconds=1), and a date minus a    *)
(* timedelta moves by the timedelta's whole days only.                     *)
(***************************************************************************)
resolution == [days |-> 0, seconds |-> 0, microseconds |-> 1]

\* the day before a date
prev_day(d) ==
    IF d[3] > 1 THEN date(d[1], d[2], d[3] - 1)
    ELSE IF d[2] > 1 THEN date(d[1], d[2] - 1, monthrange(d[1], d[2] - 1))
    ELSE date(d[1] - 1, 12, 31)

\* date - timedelta
RECURSIVE date_minus_days(_, _)
date_minus_days(d, days) ==
    IF days = 0 THEN d ELSE date_minus_days(prev_day(d), days - 1)

date_sub(d, delta) == date_minus_days(d, delta.days)

monthly_end_date(y, m) ==
    IF m = 12 THEN date(y, 12, 31)
    ELSE date_sub(date(y, m + 1, 1), resolution)

\* the records are returned ordered by date; the model keeps them as a set
monthly_attendance(employee_id, m, y, db) ==
    IF m < 1 \/ m > 12
    THEN response(400, "Invalid month value", <<"month_check">>, {})
    ELSE IF employee_lookup(employee_id) = {}
    THEN response(404, "Employee not found", <<"month_check", "employee_lookup">>, {})
    ELSE LET start_date == date(y, m, 1)
             end_date == monthly_end_date(y, m)
             records == {r \in db :
                            /\ r.employee_id = employee_id
                            /\ DateLE(start_date, r.date)
                            /\ DateLE(r.date, end_date)}
             stats == [total_days |-> Cardinality(records),
                       present |-> Cardinality({r \in records : r.status = "Present"}),
                       absent |-> Cardinality({r \in records : r.status = "Absent"}),
                       half_day |-> Cardinality({r \in records : r.status = "Half Day"})]
         IN  response(200, "", <<"month_check", "employee_lookup", "records_query">>,
                      {[records |-> records, stats |-> stats]})

(***************************************************************************)
(* monthly_attendance on its own: a period and an attendance table are     *)
(* drawn as for the payroll calculator, and the route is asked for the     *)
(* period, for a month no calendar has, or for an employee no row has.     *)
(***************************************************************************)
InitMonthly ==
    /\ fp = NoFp
    /\ employee = [id |-> 1, basic_salary |-> 3000000, allowances |-> 500000]
    /\ \E period \in Periods :
          /\ year = period[1]
          /\ month = period[2]
    /\ \E present \in 0 .. MaxMonthlyPresent, half_day \in 0 .. MaxHalfDay,
          absent \in 0 .. MaxAbsent, noise \in BOOLEAN :
          attendance = MonthRows(1, year, month, present, half_day, absent)
                         \cup (IF noise THEN NoiseRows(1, year, month) ELSE {})
    /\ payroll = {}
    /\ flight = {}
    /\ payslips = {}
    /\ leave_allocations = {}
    /\ leave_requests = {}
    /\ users = {}
    /\ employees = {}
    /\ salary = 0
    /\ result = None

MonthlyAttendance ==
    /\ result = None
    /\ \E employee_id \in RouteEmployeeIds, m \in {month, 13} :
          result' = [op |-> "monthly_attendance",
                     request |-> [employee_id |-> employee_id, month |-> m,
                                  year |-> year],
                     response |-> monthly_attendance(employee_id, m, year, attendance),
                     before |-> {}]
    /\ UNCHANGED <<fp, employee, attendance, year, month, salary, payroll, flight,
                   payslips,
                   leave_allocations, leave_requests, users, employees>>

NextMonthly == MonthlyAttendance

SpecMonthly == InitMonthly /\ [][NextMonthly]_vars

\* C24: the records monthly_attendance returns for an employee and a month
\* are the records get_attended_days sums for them: none is dated in the
\* following month, present + 0.5 * half_day of the stats is
\* get_attended_days (both sides in half days), and total_days is
\* present + absent + half_day.
C24_MonthlyMatchesAggregator ==
    result.op = "monthly_attendance" /\ Ok(result) =>
        \A body \in result.response.body :
            /\ body.records = month_records(result.request.employee_id,
                                            result.request.year,
                                            result.request.month, attendance)
            /\ \A r \in body.records :
                  r.date[1] = result.request.year
                    /\ r.date[2] = result.request.month
            /\ 2 * body.stats.present + body.stats.half_day
                 = get_attended_days(result.request.employee_id,
                                     result.request.year,
                                     result.request.month, attendance)
            /\ body.stats.total_days
                 = body.stats.present + body.stats.absent + body.stats.half_day

\* the events of the month that fall on a Monday..Friday
WeekdayEvents == {r \in EventsOfMonth : r.date[3] \in MondayToFriday(year, month)}

OnePerDate == \A a \in EventsOfMonth : \A b \in EventsOfMonth \ {a} : a.date # b.date

ValidCompensation == employee.basic_salary > 0 /\ employee.allowances >= 0

C26_NetNonNegative ==
    Returned =>
        /\ (ValidCompensation /\ OnePerDate => result.net_salary >= 0)
        /\ (result.net_salary < 0 => ~ValidCompensation)

\* C26 witness: basic 10000.01 (tax 150), no allowances, half a day of the
\* 23 working days of January 2025: gross 217.39, PF 26.09, net 41.30.
C26_Witness ==
    /\ Returned
    /\ employee.basic_salary = 1000001
    /\ employee.allowances = 0
    /\ result.working_days = 23
    /\ result.attended_days = 1
    /\ result.gross_salary = 21739
    /\ result.pf_contribution = 2609
    /\ result.professional_tax = 15000
    /\ result.net_salary = 4130

(***************************************************************************)
(* The leave routes (backend/routes/leaves.py) over the leave_allocations  *)
(* and leave_requests tables.                                              *)
(***************************************************************************)
LeaveType == {"Casual", "Sick", "Personal", "Annual"}

LeaveStatus == {"Pending", "Approved", "Rejected"}

\* (end_date - start_date).days + 1
leave_days(start_date, end_date) ==
    toordinal(end_date[1], end_date[2], end_date[3])
      - toordinal(start_date[1], start_date[2], start_date[3]) + 1

allocation_lookup(employee_id, y, leave_type, allocs) ==
    {a \in allocs : a.employee_id = employee_id /\ a.year = y
                      /\ a.leave_type = leave_type}

allocate_leave(employee_id, y, leave_type, total_days, allocs) ==
    IF employee_lookup(employee_id) = {}
    THEN [allocs |-> allocs,
          response |-> response(404, "Employee not found", <<"employee_lookup">>, {})]
    ELSE IF leave_type \notin LeaveType
    THEN [allocs |-> allocs,
          response |-> response(400, "Invalid leave type",
                                <<"employee_lookup", "leave_type">>, {})]
    ELSE IF total_days < 0
    THEN [allocs |-> allocs,
          response |-> response(400, "total_days must be non-negative",
                                <<"employee_lookup", "leave_type", "total_days">>, {})]
    ELSE LET found == allocation_lookup(employee_id, y, leave_type, allocs)
             ok == response(200, "Leave allocated",
                            <<"employee_lookup", "leave_type", "total_days",
                              "allocation_lookup", "commit">>, {})
         IN  IF found # {}
             THEN LET alloc == CHOOSE a \in found : TRUE
                  IN  [allocs |-> (allocs \ {alloc})
                                    \cup {[alloc EXCEPT !.total_days = total_days]},
                       response |-> ok]
             ELSE [allocs |-> allocs \cup {[id |-> next_id(allocs),
                                           employee_id |-> employee_id,
                                           year |-> y,
                                           leave_type |-> leave_type,
                                           total_days |-> total_days,
                                           used_days |-> 0]},
                   response |-> ok]

\* apply_leave of the employee of the current user
apply_leave(emp, payload, allocs, requests) ==
    LET days == leave_days(payload.start_date, payload.end_date)
        found == allocation_lookup(emp.id, payload.start_date[1],
                                   payload.leave_type, allocs)
    IN  IF payload.leave_type \notin LeaveType
        THEN [requests |-> requests,
              response |-> response(400, "Invalid leave type", <<"leave_type">>, {})]
        ELSE IF days <= 0
        THEN [requests |-> requests,
              response |-> response(400, "Invalid date range",
                                    <<"leave_type", "days">>, {})]
        ELSE IF found = {}
        THEN [requests |-> requests,
              response |-> response(400,
                                    "No leave allocation found for this employee/year/type",
                                    <<"leave_type", "days", "allocation_lookup">>, {})]
        ELSE LET alloc == CHOOSE a \in found : TRUE
                 lr == [id |-> next_id(requests),
                        employee_id |-> emp.id,
                        leave_type |-> payload.leave_type,
                        start_date |-> payload.start_date,
                        end_date |-> payload.end_date,
                        status |-> "Pending",
                        approver_id |-> {}]
             IN  IF alloc.used_days + days > alloc.total_days
                 THEN [requests |-> requests,
                       response |-> response(400, "Insufficient leave balance",
                                             <<"leave_type", "days",
                                               "allocation_lookup", "balance">>, {})]
                 ELSE [requests |-> requests \cup {lr},
                       response |-> response(201, "",
                                             <<"leave_type", "days",
                                               "allocation_lookup", "balance",
                                               "commit">>, {lr})]

\* decide_request names its query parameter status, which hides fastapi's
\* status module inside the function: every raise HTTPException(status_code=
\* status.HTTP_...) of the function fails on the attribute lookup with
\* AttributeError before the HTTPException is built, nothing catches it, and
\* the request ends as status 500 with nothing written.
decide_raises(calls, allocs, requests) ==
    [allocs |-> allocs,
     requests |-> requests,
     response |-> response(500, "AttributeError", calls, {})]

\* without the test that the request is Pending
decide_request_any_status(request_id, new_status, current_user, allocs, requests) ==
    IF new_status \notin LeaveStatus
    THEN decide_raises(<<"status">>, allocs, requests)
    ELSE LET found == {lr \in requests : lr.id = request_id}
         IN  IF found = {}
             THEN decide_raises(<<"status", "request_lookup">>, allocs, requests)
             ELSE LET lr == CHOOSE r \in found : TRUE
                      decided == [lr EXCEPT !.status = new_status,
                                            !.approver_id = current_user.employee]
                      allocation == allocation_lookup(lr.employee_id, lr.start_date[1],
                                                      lr.leave_type, allocs)
                      days == leave_days(lr.start_date, lr.end_date)
                  IN  IF FALSE
                      THEN decide_raises(<<"status", "request_lookup", "pending">>,
                                         allocs, requests)
                      ELSE IF new_status # "Approved"
                      THEN [allocs |-> allocs,
                            requests |-> (requests \ {lr}) \cup {decided},
                            response |-> response(200, "",
                                                  <<"status", "request_lookup",
                                                    "pending", "commit">>, {decided})]
                      ELSE IF allocation = {}
                      THEN decide_raises(<<"status", "request_lookup", "pending",
                                           "allocation_lookup">>, allocs, requests)
                      ELSE LET alloc == CHOOSE a \in allocation : TRUE
                           IN  IF alloc.used_days + days > alloc.total_days
                               THEN decide_raises(<<"status", "request_lookup",
                                                    "pending", "allocation_lookup",
                                                    "balance">>, allocs, requests)
                               ELSE [allocs |-> (allocs \ {alloc})
                                                  \cup {[alloc EXCEPT !.used_days
                                                                       = @ + days]},
                                     requests |-> (requests \ {lr}) \cup {decided},
                                     response |-> response(200, "",
                                                           <<"status", "request_lookup",
                                                             "pending",
                                                             "allocation_lookup",
                                                             "balance", "commit">>,
                                                           {decided})]

decide_request(request_id, new_status, current_user, allocs, requests) ==
    IF new_status \notin LeaveStatus
    THEN decide_raises(<<"status">>, allocs, requests)
    ELSE LET found == {lr \in requests : lr.id = request_id}
         IN  IF found = {}
             THEN decide_raises(<<"status", "request_lookup">>, allocs, requests)
             ELSE LET lr == CHOOSE r \in found : TRUE
                      decided == [lr EXCEPT !.status = new_status,
                                            !.approver_id = current_user.employee]
                      allocation == allocation_lookup(lr.employee_id, lr.start_date[1],
                                                      lr.leave_type, allocs)
                      days == leave_days(lr.start_date, lr.end_date)
                  IN  IF lr.status # "Pending"
                      THEN decide_raises(<<"status", "request_lookup", "pending">>,
                                         allocs, requests)
                      ELSE IF new_status # "Approved"
                      THEN [allocs |-> allocs,
                            requests |-> (requests \ {lr}) \cup {decided},
                            response |-> response(200, "",
                                                  <<"status", "request_lookup",
                                                    "pending", "commit">>, {decided})]
                      ELSE IF allocation = {}
                      THEN decide_raises(<<"status", "request_lookup", "pending",
                                           "allocation_lookup">>, allocs, requests)
                      ELSE LET alloc == CHOOSE a \in allocation : TRUE
                           IN  IF alloc.used_days + days > alloc.total_days
                               THEN decide_raises(<<"status", "request_lookup",
                                                    "pending", "allocation_lookup",
                                                    "balance">>, allocs, requests)
                               ELSE [allocs |-> (allocs \ {alloc})
                                                  \cup {[alloc EXCEPT !.used_days
                                                                       = @ + days]},
                                     requests |-> (requests \ {lr}) \cup {decided},
                                     response |-> response(200, "",
                                                           <<"status", "request_lookup",
                                                             "pending",
                                                             "allocation_lookup",
                                                             "balance", "commit">>,
                                                           {decided})]

(***************************************************************************)
(* The leave routes served one request at a time, for employee 1 and the   *)
(* Casual allocation of 2025.  Leave is applied for over the end of the    *)
(* year: one day in 2025, two days starting in 2025, one day in 2026 (a    *)
(* year without allocation).  The payroll officer who decides has the      *)
(* Employee row 1.  The number of leave requests is capped.                *)
(***************************************************************************)
LeaveYears == {2025}

LeaveTypeParameters == {"Casual", "Unpaid"}

TotalDays == {-1, 1, 3}

LeavePayloads ==
    {[leave_type |-> "Casual", start_date |-> date(2025, 12, 30),
      end_date |-> date(2025, 12, 30)],
     [leave_type |-> "Casual", start_date |-> date(2025, 12, 31),
      end_date |-> date(2026, 1, 1)],
     [leave_type |-> "Casual", start_date |-> date(2026, 1, 1),
      end_date |-> date(2026, 1, 1)]}

LeaveRequestIds == 1 .. MaxLeaveRequests + 1

StatusParameters == {"Approved", "Rejected", "Pending", "Cancelled"}

Officer == [employee |-> {1}]

InitLeaves ==
    /\ fp = NoFp
    /\ employee = [id |-> 1, basic_salary |-> 3000000, allowances |-> 500000]
    /\ attendance = {}
    /\ payroll = {}
    /\ flight = {}
    /\ payslips = {}
    /\ leave_allocations = {}
    /\ leave_requests = {}
    /\ users = {}
    /\ employees = {}
    /\ year = 2025
    /\ month = 12
    /\ salary = 0
    /\ result = None

AllocateLeave ==
    \E employee_id \in RouteEmployeeIds, y \in LeaveYears,
       leave_type \in LeaveTypeParameters, total_days \in TotalDays :
        LET done == allocate_leave(employee_id, y, leave_type, total_days,
                                   leave_allocations)
        IN  /\ leave_allocations' = done.allocs
            /\ result' = [op |-> "allocate_leave",
                          request |-> [employee_id |-> employee_id, year |-> y,
                                       leave_type |-> leave_type,
                                       total_days |-> total_days],
                          response |-> done.response,
                          before |-> {}]
            /\ UNCHANGED <<fp, employee, attendance, year, month, salary, payroll,
                           flight, payslips, leave_requests, users, employees>>

ApplyLeave ==
    \E payload \in LeavePayloads :
        LET done == apply_leave(employee, payload, leave_allocations, leave_requests)
        IN  /\ Cardinality(leave_requests) < MaxLeaveRequests
            /\ leave_requests' = done.requests
            /\ result' = [op |-> "apply_leave",
                          request |-> payload,
                          response |-> done.response,
                          before |-> {}]
            /\ UNCHANGED <<fp, employee, attendance, year, month, salary, payroll,
                           flight, payslips, leave_allocations, users, employees>>

DecideRequest ==
    \E request_id \in LeaveRequestIds, status \in StatusParameters :
        LET done == decide_request(request_id, status, Officer, leave_allocations,
                                   leave_requests)
        IN  /\ leave_allocations' = done.allocs
            /\ leave_requests' = done.requests
            /\ result' = [op |-> "decide_request",
                          request |-> [request_id |-> request_id, status |-> status],
                          response |-> done.response,
                          before |-> {lr \in leave_requests : lr.id = request_id}]
            /\ UNCHANGED <<fp, employee, attendance, year, month, salary, payroll,
                           flight, payslips, users, employees>>

NextLeaves ==
    \/ AllocateLeave
    \/ ApplyLeave
    \/ DecideRequest

SpecLeaves == InitLeaves /\ [][NextLeaves]_vars

RECURSIVE SumOfDays(_)
SumOfDays(requests) ==
    IF requests = {} THEN 0
    ELSE LET lr == CHOOSE r \in requests : TRUE
         IN  leave_days(lr.start_date, lr.end_date) + SumOfDays(requests \ {lr})

ApprovedUnder(alloc) ==
    {lr \in leave_requests :
        /\ lr.status = "Approved"
        /\ lr.employee_id = alloc.employee_id
        /\ lr.leave_type = alloc.leave_type
        /\ lr.start_date[1] = alloc.year}

\* C28: every LeaveAllocation has 0 <= used_days <= total_days, and its
\* used_days is the sum of the inclusive day counts of the Approved leave
\* requests of its employee, leave type and start-date year.
C28_LeaveBalance ==
    \A alloc \in leave_allocations :
        /\ 0 <= alloc.used_days
        /\ alloc.used_days <= alloc.total_days
        /\ alloc.used_days = SumOfDays(ApprovedUnder(alloc))

Changed(res) == res.response.status \in {200, 201}

\* C29: a leave request that is Approved or Rejected stays as it is; a
\* decide_request on it fails and leaves the requests and the allocations
\* as they were; an approval that would take used_days above total_days
\* fails and leaves the request Pending and the allocations as they were.
C29_OnlyPendingDecided ==
    [][/\ \A lr \in leave_requests :
             lr.status \in {"Approved", "Rejected"} => lr \in leave_requests'
       /\ (/\ result'.op = "decide_request"
           /\ \E lr \in leave_requests :
                 lr.id = result'.request.request_id /\ lr.status # "Pending"
           => /\ ~Changed(result')
              /\ leave_requests' = leave_requests
              /\ leave_allocations' = leave_allocations)
       /\ (/\ result'.op = "decide_request"
           /\ result'.request.status = "Approved"
           /\ \E lr \in leave_requests : \E alloc \in leave_allocations :
                 /\ lr.id = result'.request.request_id
                 /\ alloc.employee_id = lr.employee_id
                 /\ alloc.leave_type = lr.leave_type
                 /\ alloc.year = lr.start_date[1]
                 /\ alloc.used_days + leave_days(lr.start_date, lr.end_date)
                      > alloc.total_days
           => /\ ~Changed(result')
              /\ leave_requests' = leave_requests
              /\ leave_allocations' = leave_allocations)]_vars

\* C29 witness: a decide_request on a request approved earlier has failed,
\* with another request left Pending by an approval that did not fit the
\* balance.
C29_Witness ==
    /\ result.op = "decide_request"
    /\ ~Changed(result)
    /\ \E lr \in result.before : lr.status = "Approved" /\ lr \in leave_requests
    /\ \E lr \in leave_requests : \E alloc \in leave_allocations :
          /\ lr.status = "Pending"
          /\ alloc.used_days > 0
          /\ alloc.used_days + leave_days(lr.start_date, lr.end_date)
               > alloc.total_days

(***************************************************************************)
(* Registration.  Strings that the code slices are sequences of one-       *)
(* character strings.                                                      *)
(***************************************************************************)
Lowercase ==
    <<"a", "b", "c", "d", "e", "f", "g", "h", "i", "j", "k", "l", "m",
      "n", "o", "p", "q", "r", "s", "t", "u", "v", "w", "x", "y", "z">>

Uppercase ==
    <<"A", "B", "C", "D", "E", "F", "G", "H", "I", "J", "K", "L", "M",
      "N", "O", "P", "Q", "R", "S", "T", "U", "V", "W", "X", "Y", "Z">>

Digits == <<"0", "1", "2", "3", "4", "5", "6", "7", "8", "9">>

\* str.upper()
upper(s) ==
    [i \in 1 .. Len(s) |->
        IF \E k \in 1 .. Len(Lowercase) : Lowercase[k] = s[i]
        THEN Uppercase[CHOOSE k \in 1 .. Len(Lowercase) : Lowercase[k] = s[i]]
        ELSE s[i]]

\* [p for p in full_name.strip().split() if p], from character i on, with
\* cur the word being read
RECURSIVE split_from(_, _, _)
split_from(s, i, cur) ==
    IF i > Len(s)
    THEN IF cur = <<>> THEN <<>> ELSE <<cur>>
    ELSE IF s[i] = " "
         THEN IF cur = <<>>
              THEN split_from(s, i + 1, <<>>)
              ELSE <<cur>> \o split_from(s, i + 1, <<>>)
         ELSE split_from(s, i + 1, Append(cur, s[i]))

split(s) == split_from(s, 1, <<>>)

\* s[:2]
first2(s) == SubSeq(s, 1, IF Len(s) < 2 THEN Len(s) ELSE 2)

\* str(n) of a natural number
RECURSIVE str(_)
str(n) ==
    IF n < 10 THEN <<Digits[n + 1]>>
    ELSE Append(str(n \div 10), Digits[(n % 10) + 1])

\* f"{serial:04d}"
RECURSIVE zero_pad(_, _)
zero_pad(s, width) ==
    IF Len(s) >= width THEN s ELSE zero_pad(<<"0">> \o s, width)

\* Employee.date_of_joining.between(datetime(y, 1, 1), datetime(y, 12, 31))
joined_in(e, joining_year) ==
    /\ DateLE(date(joining_year, 1, 1), e.date_of_joining)
    /\ DateLE(e.date_of_joining, date(joining_year, 12, 31))

generate_login_id(full_name, joining_year, db_employees) ==
    LET parts == split(full_name)
        first == IF parts # <<>> THEN parts[1] ELSE <<"X", "X">>
        last == IF Len(parts) > 1 THEN parts[Len(parts)] ELSE <<"X", "X">>
        code == upper(first2(first) \o first2(last))
        existing_count ==
            Cardinality({e \in db_employees : joined_in(e, joining_year)})
        serial == existing_count + 1
        serial_str == zero_pad(str(serial), 4)
    IN  <<"O", "I">> \o code \o str(joining_year) \o serial_str

\* register(user_data); generated is the login_id made for the call, if the
\* call came to make one.  users.login_id is unique: the commit of a second
\* row with a login_id in use raises IntegrityError.
register(user_data, db_users, db_employees) ==
    IF \E u \in db_users : u.email = user_data.email
    THEN [users |-> db_users, generated |-> {},
          response |-> response(400, "Email already registered",
                                <<"email_lookup">>, {})]
    ELSE LET joining_year == Today[1]
             login_id == generate_login_id(user_data.full_name, joining_year,
                                           db_employees)
             new_user == [id |-> Cardinality(db_users) + 1,
                          email |-> user_data.email,
                          full_name |-> user_data.full_name,
                          login_id |-> login_id]
         IN  IF \E u \in db_users : u.login_id = login_id
             THEN [users |-> db_users, generated |-> {login_id},
                   response |-> response(500, "IntegrityError",
                                         <<"email_lookup", "login_id", "commit">>,
                                         {})]
             ELSE [users |-> db_users \cup {new_user}, generated |-> {login_id},
                   response |-> response(200, "",
                                         <<"email_lookup", "login_id", "commit">>,
                                         {[sub |-> new_user.id]})]

\* create_employee(payload); employees.user_id is unique and not nullable
create_employee(payload, db_users, db_employees) ==
    IF payload.user_id # {} /\ ~\E u \in db_users : u.id \in payload.user_id
    THEN [employees |-> db_employees,
          response |-> response(400, "Associated user not found",
                                <<"user_lookup">>, {})]
    ELSE IF \/ payload.user_id = {}
            \/ \E e \in db_employees : e.user_id \in payload.user_id
         THEN [employees |-> db_employees,
               response |-> response(500, "IntegrityError",
                                     <<"user_lookup", "commit">>, {})]
         ELSE LET new_emp == [id |-> Cardinality(db_employees) + 1,
                              user_id |-> CHOOSE n \in payload.user_id : TRUE,
                              date_of_joining |-> payload.date_of_joining]
              IN  [employees |-> db_employees \cup {new_emp},
                   response |-> response(201, "", <<"user_lookup", "commit">>,
                                         {new_emp})]

(***************************************************************************)
(* Registrations and employee profiles made one request at a time in       *)
(* 2025.  Three of the names have the initials JODO, one is a single word; *)
(* an employee joins in this year or the one before.                       *)
(***************************************************************************)
FullNames ==
    {<<"J", "o", " ", "D", "o">>,
     <<"j", "o", "e", " ", " ", "d", "o", "e">>,
     <<"J", "o", " ", "A", "l", " ", "D", "o", "w">>,
     <<"A", "l">>}

Emails == {"a@x.in", "b@x.in", "c@x.in"}

UserData == [email : Emails, full_name : FullNames]

JoiningDates == {date(2024, 12, 31), date(2025, 1, 1)}

EmployeePayloads ==
    [user_id : {{}} \cup {{n} : n \in 1 .. MaxUsers + 1},
     date_of_joining : JoiningDates]

InitRegister ==
    /\ fp = NoFp
    /\ employee = [id |-> 1, basic_salary |-> 3000000, allowances |-> 500000]
    /\ attendance = {}
    /\ payroll = {}
    /\ flight = {}
    /\ payslips = {}
    /\ leave_allocations = {}
    /\ leave_requests = {}
    /\ users = {}
    /\ employees = {}
    /\ year = 2025
    /\ month = 2
    /\ salary = 0
    /\ result = None

Register ==
    \E user_data \in UserData :
        LET done == register(user_data, users, employees)
        IN  /\ Cardinality(users) < MaxUsers
            /\ users' = done.users
            /\ result' = [op |-> "register",
                          request |-> user_data,
                          response |-> done.response,
                          before |-> done.generated]
            /\ UNCHANGED <<fp, employee, attendance, year, month, salary, payroll,
                           flight, payslips, leave_allocations, leave_requests,
                           employees>>

CreateEmployee ==
    \E payload \in EmployeePayloads :
        LET done == create_employee(payload, users, employees)
        IN  /\ Cardinality(employees) < MaxEmployees
            /\ employees' = done.employees
            /\ result' = [op |-> "create_employee",
                          request |-> payload,
                          response |-> done.response,
                          before |-> {}]
            /\ UNCHANGED <<fp, employee, attendance, year, month, salary, payroll,
                           flight, payslips, leave_allocations, leave_requests,
                           users>>

NextRegister ==
    \/ Register
    \/ CreateEmployee

SpecRegister == InitRegister /\ [][NextRegister]_vars

\* C30: every register call that comes to generate a login_id generates one
\* that no user has, and succeeds: the login_ids generated over any sequence
\* of registrations are pairwise distinct.
C30_LoginIdsDistinct ==
    [][result'.op = "register" /\ result'.before # {}
       => /\ \A u \in users : u.login_id \notin result'.before
          /\ result'.response.status = 200]_vars

=============================================================================
